---- MODULE Spec2Model ----
(***************************************************************************)
(* Model of the quant-ai frontend decision pipeline:                       *)
(*   - calcOverall, the signal aggregator of AgentDecisions.tsx            *)
(*   - fetchAnalysis and fetchMarketPicks, the two refresh cycles of       *)
(*     AgentDecisions.tsx, and the portfolio summary of its render         *)
(*   - GET of the quote route that feeds fetchAnalysis                     *)
(*   - fetchAll of the rule-based AgentDecisions, which screens the buy    *)
(*     candidate from the stocks of the top sector                         *)
(*   - RiskGauge, the risk score of a portfolio                            *)
(*   - Dashboard.runAnalysis and the re-analyse button of AgentChat        *)
(*   - POST of the proxy routes /api/agents and /api/market-picks          *)
(* Eight specifications share the module: SpecCalc applies calcOverall to  *)
(* every verdict set of a bounded family, SpecCycle runs one analysis      *)
(* cycle against the full family of responses, Spec runs the component     *)
(* with its timers, refresh buttons and overlapping cycles, SpecRollup     *)
(* renders the portfolio summary of every analyses list of a bounded       *)
(* family, SpecScreen runs fetchAll on every sector list of a bounded      *)
(* family, SpecRisk scores every portfolio of a bounded family, SpecRun    *)
(* runs the Dashboard analysis from its button, and SpecProxy handles the  *)
(* requests of the two proxy routes.                                       *)
(***************************************************************************)
EXTENDS Integers, Sequences, FiniteSets, TLC

VARIABLES
    agentSignals,   \* calcOverall: the verdict record it is applied to
    overall,        \* calcOverall: the record it returned (NoResult before the call)
    holdings,       \* AgentDecisions: the holdings prop of the latest render
    fnHoldings,     \* the holdings the memoized fetchAnalysis closes over
    analyses,       \* useState: the published HoldingAnalysis list
    loading,        \* useState
    error,          \* useState: NoError is null
    lastUpdated,    \* useState: NoTime is null
    agentGroups,    \* useState
    inflight,       \* the fetchAnalysis calls that are awaiting their responses
    started,        \* how many fetchAnalysis calls got past their guard
    publishedFrom,  \* history: the responses the published analyses were built from
    marketPicks,    \* useState: the published MarketPicksResult (NoPicks is null)
    picksLoading,   \* useState
    picksError,     \* useState: NoError is null
    picksInflight,  \* the fetchMarketPicks calls that are awaiting their response
    picksStarted,   \* how many fetchMarketPicks calls got past their guard
    picksFrom,      \* history: the fetchMarketPicks call that published marketPicks
    rollup,         \* the portfolio summary a render derives from analyses
    quoteJson,      \* fetchAll: the body /api/quote answered with (quoteData)
    marketData,     \* fetchAll: the body /api/market answered with
    sectorData,     \* fetchAll: how the /api/sector-stocks request ended
    stockAnalyses,  \* fetchAll's component: useState analyses, as the codes analysed
    buyCandidate,   \* fetchAll's component: useState (NoCandidate is null)
    screening,      \* fetchAll's component: useState loading
    portfolio,      \* RiskGauge: the portfolio prop (NoPortfolio is null)
    riskScore,      \* RiskGauge: useState
    analysisRunning,\* Dashboard: useState
    running,        \* AgentChat: the running prop of the committed render
    logs,           \* Dashboard: useState, as the agents of the entries
    signals,        \* Dashboard: useState
    runs,           \* the runAnalysis calls that are past their guards
    triggers,       \* history: clicks on the re-analyse button
    signalsFrom,    \* history: the run that published signals
    proxyCall,      \* per proxy route: the POST being handled
    proxyResponse   \* per proxy route: what the handler returned

calcVars == << agentSignals, overall >>

picksVars == << marketPicks, picksLoading, picksError, picksInflight,
                picksStarted, picksFrom >>

rollVars == << rollup >>

screenVars == << quoteJson, marketData, sectorData, stockAnalyses, buyCandidate,
                screening >>

riskVars == << portfolio, riskScore >>

runVars == << analysisRunning, running, logs, signals, runs, triggers, signalsFrom >>

proxyVars == << proxyCall, proxyResponse >>

\* the variables of the Dashboard run and of the proxy routes
dashVars == << runVars, proxyVars >>

\* the variables of the pure-function specifications
pureVars == << calcVars, rollVars, screenVars, riskVars, dashVars >>

compVars == << holdings, fnHoldings, analyses, loading, error, lastUpdated,
               agentGroups, inflight, started, publishedFrom >>

vars == << calcVars, compVars, picksVars, rollVars, screenVars, riskVars, dashVars >>

(***************************************************************************)
(* Bounds of the model.                                                    *)
(***************************************************************************)
MaxVerdicts == 5

\* fetchAnalysis and fetchMarketPicks calls started in one behaviour
MaxCycles == 3

\* analysts answering in the enumerated responses of SpecCycle
PanelSize == 3

\* clicks on the re-analyse button in one behaviour
MaxTriggers == 2

(***************************************************************************)
(* Values.                                                                 *)
(***************************************************************************)
Signals == {"bullish", "bearish", "neutral"}

\* keys of AGENT_CONFIG, in source order
AgentNames ==
    << "WarrenBuffett", "CharlieMunger", "BenGraham", "MichaelBurry",
       "MohnishPabrai", "PeterLynch", "CathieWood", "PhilFisher",
       "RakeshJhunjhunwala", "AswathDamodaran", "StanleyDruckenmiller",
       "BillAckman", "FundamentalAnalyst", "TechnicalAnalyst",
       "SentimentAnalyst", "RiskManager" >>

\* the first n analysts of the panel
FirstAgents(n) ==
    {AgentNames[i] : i \in 1..(IF n < Len(AgentNames) THEN n ELSE Len(AgentNames))}

\* confidences the enumerated verdicts carry
CalcConfidences == {55, 70}

LLMSignal(confs) == [signal : Signals, confidence : confs]

\* every Record<string, LLMSignal> over a subset of the given agents
SignalRecords(agents, confs) ==
    UNION {[present -> LLMSignal(confs)] : present \in SUBSET agents}

NoResult == [signal |-> "none"]

(***************************************************************************)
(* JavaScript arithmetic on the rationals a / b (b > 0).                   *)
(***************************************************************************)
\* Math.ceil(a / b)
MathCeil(a, b) == -((-a) \div b)

\* Math.floor(a / b)
MathFloor(a, b) == a \div b

\* Math.round(a / b): the nearest integer, a tie going towards +Infinity
MathRound(a, b) == (2 * a + b) \div (2 * b)

Abs(x) == IF x < 0 THEN -x ELSE x

(***************************************************************************)
(* calcOverall                                                             *)
(***************************************************************************)
\* vals.filter(v => v.signal === s).length
CountSignal(sigs, s) == Cardinality({a \in DOMAIN sigs : sigs[a].signal = s})

\* vals.reduce((s, v) => s + v.confidence, 0)
RECURSIVE SumOver(_, _)
SumOver(sigs, agents) ==
    IF agents = {} THEN 0
    ELSE LET a == CHOOSE x \in agents : TRUE
         IN  sigs[a].confidence + SumOver(sigs, agents \ {a})

SumConfidence(sigs) == SumOver(sigs, DOMAIN sigs)

NeutralCount_DropsBearish(n, bullish, bearish) == n - bullish

\* const neutral = vals.length - bullish - bearish
NeutralCount(n, bullish, bearish) == n - bullish - bearish

Majority_Floor(n) == MathFloor(n, 2)

\* const majority = Math.ceil(vals.length / 2)
Majority(n) == MathCeil(n, 2)

\* bullish >= majority ? 'bullish' : bearish >= majority ? 'bearish' : 'neutral'
PickSignal(bullish, bearish, majority) ==
    IF bullish >= majority THEN "bullish"
    ELSE IF bearish >= majority THEN "bearish"
    ELSE "neutral"

MeanConfidence_Floor(sigs) ==
    MathFloor(SumConfidence(sigs), Cardinality(DOMAIN sigs))

MeanConfidence_Ceil(sigs) ==
    MathCeil(SumConfidence(sigs), Cardinality(DOMAIN sigs))

\* Math.round(vals.reduce((s, v) => s + v.confidence, 0) / vals.length)
MeanConfidence(sigs) ==
    MathRound(SumConfidence(sigs), Cardinality(DOMAIN sigs))

\* calcOverall without its first line (0 stands for the NaN of 0 / 0)
calcOverall_NoEmptyGuard(sigs) ==
    LET n == Cardinality(DOMAIN sigs)
        bullish == CountSignal(sigs, "bullish")
        bearish == CountSignal(sigs, "bearish")
    IN  [signal     |-> PickSignal(bullish, bearish, Majority(n)),
         confidence |-> IF n = 0 THEN 0 ELSE MeanConfidence(sigs),
         bullish    |-> bullish,
         bearish    |-> bearish,
         neutral    |-> NeutralCount(n, bullish, bearish)]

calcOverall(sigs) ==
    LET n == Cardinality(DOMAIN sigs)
    IN  IF n = 0
        THEN [signal |-> "neutral", confidence |-> 0,
              bullish |-> 0, bearish |-> 0, neutral |-> 0]
        ELSE LET bullish == CountSignal(sigs, "bullish")
                 bearish == CountSignal(sigs, "bearish")
             IN  [signal     |-> PickSignal(bullish, bearish, Majority(n)),
                  confidence |-> MeanConfidence(sigs),
                  bullish    |-> bullish,
                  bearish    |-> bearish,
                  neutral    |-> NeutralCount(n, bullish, bearish)]

(***************************************************************************)
(* Values of the component.                                                *)
(***************************************************************************)
CodeA == "600519"
CodeB == "000858"
Codes == {CodeA, CodeB}

\* a holding of the holdings prop (its display name is left out: it is
\* copied unchanged into the analysis)
Holding(code, cost, shares) == [code |-> code, cost |-> cost, shares |-> shares]

\* the holdings lists the portfolio refresh can deliver
HoldingsChoices ==
    { << >>,
      << Holding(CodeA, 10, 100) >>,
      << Holding(CodeA, 20, 100) >>,
      << Holding(CodeA, 10, 100), Holding(CodeB, 0, 200) >> }

\* holdings.map(h => h.code).join(',')
CodesOf(hs) == [i \in 1..Len(hs) |-> hs[i].code]

CodeSet(hs) == {hs[i].code : i \in 1..Len(hs)}

EmptyRecord == [a \in {} |-> {}]

NoError == "null"
NoTime == "null"
NoCycle == [id |-> 0]

\* useState<MarketPicksResult | null>(null)
NoPicks == [success |-> FALSE, sector_pick |-> "null"]

\* a response that was not requested, or not read
NoBody == [success |-> FALSE, requested |-> FALSE]

\* useState<BuyCandidate | null>(null)
NoCandidate == [code |-> "null"]

\* the two proxy routes, by the last segment of their path
Routes == {"agents", "market-picks"}

\* a route that is handling no request, and one that has returned nothing
NoCall == [pc |-> "idle"]
NoResponse == [status |-> 0]

\* portfolio?: PortfolioSummary | null
NoPortfolio == [totalAssets |-> 0, present |-> FALSE]

\* n analysts of the panel, one from each group in turn
PanelAgents(n) == {AgentNames[5 * i - 4] : i \in 1..n}

\* every map code -> verdict over a subset of the codes
PartialMaps(codes, vals) == UNION {[present -> vals] : present \in SUBSET codes}

\* 16 analysts asked about CodeA: 9 answer bullish at 70, 7 return nothing
ScenarioData ==
    [a \in FirstAgents(16) |->
        IF a \in FirstAgents(9)
        THEN [c \in {CodeA} |-> [signal |-> "bullish", confidence |-> 70]]
        ELSE EmptyRecord]

\* the bodies /api/agents can answer for a request about these codes, when
\* the given analysts answer with the given verdicts
AgentDatas(agents, verdicts, codes) ==
    {[success |-> FALSE, data |-> EmptyRecord]}
    \cup {[success |-> TRUE, data |-> d] :
            d \in [agents -> PartialMaps(codes, verdicts)]
                  \cup {EmptyRecord, ScenarioData}}

\* the responses of the full-panel specification SpecCycle
CycleVerdicts ==
    { [signal |-> "bullish", confidence |-> 70],
      [signal |-> "neutral", confidence |-> -20],
      [signal |-> "bearish", confidence |-> 150] }

CycleAgentDatas(codes) == AgentDatas(PanelAgents(PanelSize), CycleVerdicts, codes)

\* the responses of the scheduling specification Spec
SchedVerdicts ==
    { [signal |-> "bullish", confidence |-> 70],
      [signal |-> "bearish", confidence |-> 150] }

SchedAgentDatas(codes) == AgentDatas(PanelAgents(1), SchedVerdicts, codes)

\* the bodies /api/market-picks can answer with: the route's success:false
\* body, or the backend's MarketPicksResult naming the stock it picked
PickCodes == {"300750", "002594"}

PicksDatas ==
    {[success |-> FALSE, sector_pick |-> "none"]}
    \cup {[success |-> TRUE, sector_pick |-> p] : p \in PickCodes}

(***************************************************************************)
(* GET of the quote route.                                                 *)
(***************************************************************************)
\* a raw field of the upstream feed: a number, or the string '-'
Num(v) == [kind |-> "num", n |-> v]
Dash == [kind |-> "dash", n |-> 0]

\* what the upstream request can end in: a throw, or a diff list with at
\* most one entry for each code
Upstreams(entries) ==
    {[threw |-> TRUE, diff |-> << >>]}
    \cup {[threw |-> FALSE, diff |-> d] :
            d \in {<< >>} \cup {<<e>> : e \in entries}
                  \cup {<<e1, e2>> : e1 \in {e \in entries : e.f12 = CodeA},
                                     e2 \in {e \in entries : e.f12 = CodeB}}}

\* SpecCycle: a code trades at 13, or is suspended and has '-' for a price
CycleUpstreams ==
    Upstreams({[f12 |-> c, f2 |-> p, f3 |-> Num(2)] : c \in Codes, p \in {Num(13), Dash}})

\* Spec: CodeA trades, CodeB has no change reported
SchedUpstreams ==
    Upstreams({[f12 |-> CodeA, f2 |-> Num(13), f3 |-> Num(2)],
               [f12 |-> CodeB, f2 |-> Num(13), f3 |-> Dash]})

safeFloat(v, def) == IF v.kind = "dash" THEN def ELSE v.n

\* the fields of a quote that fetchAnalysis reads
QuoteOf(d) ==
    [code |-> d.f12, current |-> safeFloat(d.f2, 0), percent |-> safeFloat(d.f3, 0)]

\* the JSON body the route answers with
GET(codes, upstream) ==
    IF Len(codes) = 0 THEN [success |-> FALSE, data |-> << >>]
    ELSE IF upstream.threw THEN [success |-> FALSE, data |-> << >>]
    ELSE IF Len(upstream.diff) = 0 THEN [success |-> FALSE, data |-> << >>]
    ELSE [success |-> TRUE,
          data |-> [i \in 1..Len(upstream.diff) |-> QuoteOf(upstream.diff[i])]]

(***************************************************************************)
(* fetchAnalysis: the results built from the three responses.              *)
(***************************************************************************)
HasQuote(allQuotes, code) == \E i \in 1..Len(allQuotes) : allQuotes[i].code = code

\* allQuotes.find(d => d.code === h.code), where a quote is found
FindQuote(allQuotes, code) ==
    allQuotes[CHOOSE i \in 1..Len(allQuotes) :
                 /\ allQuotes[i].code = code
                 /\ \A j \in 1..(i - 1) : allQuotes[j].code # code]

\* h.cost > 0 ? ((price - h.cost) / h.cost) * 100 : 0
\* (the prices and costs of the model make the quotient an integer)
PnlPct(price, cost) == IF cost > 0 THEN ((price - cost) * 100) \div cost ELSE 0

CollectSignals_AbsentAsNeutral(agentSignalsMap, code) ==
    [a \in DOMAIN agentSignalsMap |->
        IF code \in DOMAIN agentSignalsMap[a]
        THEN agentSignalsMap[a][code]
        ELSE [signal |-> "neutral", confidence |-> 0]]

\* for (const [agentName, signals] of Object.entries(agentSignalsMap))
\*   if (signals[h.code]) agentSignals[agentName] = signals[h.code]
CollectSignals(agentSignalsMap, code) ==
    [a \in {x \in DOMAIN agentSignalsMap : code \in DOMAIN agentSignalsMap[x]} |->
        agentSignalsMap[a][code]]

\* one element of holdings.map(h => ...)
Analyse(h, allQuotes, agentSignalsMap) ==
    LET found  == HasQuote(allQuotes, h.code)
        price  == IF found THEN FindQuote(allQuotes, h.code).current ELSE 0
        change == IF found THEN FindQuote(allQuotes, h.code).percent ELSE 0
        sigs   == CollectSignals(agentSignalsMap, h.code)
        ov     == calcOverall(sigs)
    IN  [code              |-> h.code,
         price             |-> price,
         change            |-> change,
         pnlPct            |-> PnlPct(price, h.cost),
         overallSignal     |-> ov.signal,
         overallConfidence |-> ov.confidence,
         agentSignals      |-> sigs]

\* const allQuotes = quoteData.success ? quoteData.data : []
AllQuotes(quoteData) == IF quoteData.success THEN quoteData.data ELSE << >>

BuildResults(hs, quoteData, agentData) ==
    [i \in 1..Len(hs) |-> Analyse(hs[i], AllQuotes(quoteData), agentData.data)]

\* GROUP_ORDER: value, growth, macro / aggressive, quantitative support
GROUP_ORDER == << "value", "growth", "macro", "quant" >>

\* AGENT_CONFIG[name].group
AgentGroup(name) ==
    LET i == CHOOSE k \in 1..Len(AgentNames) : AgentNames[k] = name
    IN  IF i <= 5 THEN "value"
        ELSE IF i <= 9 THEN "growth"
        ELSE IF i <= 12 THEN "macro"
        ELSE "quant"

\* GROUP_ORDER.filter(g => some configured agent of group g is present)
PresentGroups(agentSignalsMap) ==
    LET known == {AgentNames[k] : k \in 1..Len(AgentNames)} \cap DOMAIN agentSignalsMap
        Has(g) == \E a \in known : AgentGroup(a) = g
    IN  SelectSeq(GROUP_ORDER, Has)

(***************************************************************************)
(* The component: AgentDecisions.                                          *)
(***************************************************************************)
\* the component's state other than analyses
IdleCycles ==
    /\ holdings = << >>
    /\ fnHoldings = << >>
    /\ loading = FALSE
    /\ error = NoError
    /\ lastUpdated = NoTime
    /\ agentGroups = << >>
    /\ inflight = {}
    /\ started = 0
    /\ publishedFrom = NoCycle
    /\ marketPicks = NoPicks
    /\ picksLoading = FALSE
    /\ picksError = NoError
    /\ picksInflight = {}
    /\ picksStarted = 0
    /\ picksFrom = NoCycle

InitComp ==
    /\ IdleCycles
    /\ analyses = << >>

\* fetchAnalysis up to its first await
StartFetchAnalysis ==
    IF Len(fnHoldings') = 0
    THEN UNCHANGED << loading, error, inflight, started >>
    ELSE /\ started + picksStarted < MaxCycles
         /\ loading' = TRUE
         /\ error' = NoError
         /\ inflight' = inflight \cup {[id |-> started + 1, holdings |-> fnHoldings']}
         /\ started' = started + 1

\* fetchMarketPicks up to its await
StartFetchMarketPicks ==
    IF Len(fnHoldings') = 0
    THEN UNCHANGED << picksLoading, picksError, picksInflight, picksStarted >>
    ELSE /\ started' + picksStarted < MaxCycles
         /\ picksLoading' = TRUE
         /\ picksError' = NoError
         /\ picksInflight' =
                picksInflight \cup {[id |-> picksStarted + 1, holdings |-> fnHoldings']}
         /\ picksStarted' = picksStarted + 1

\* Dashboard.fetchPortfolio delivers a holdings list; when its codes differ
\* from those fetchAnalysis and fetchMarketPicks were memoized for, both are
\* rebuilt and the two effects that depend on them run them
PortfolioRefresh(hs) ==
    /\ hs # holdings
    /\ holdings' = hs
    /\ IF CodesOf(hs) # CodesOf(fnHoldings)
       THEN /\ fnHoldings' = hs
            /\ StartFetchAnalysis
            /\ StartFetchMarketPicks
       ELSE UNCHANGED << fnHoldings, loading, error, inflight, started,
                         picksLoading, picksError, picksInflight, picksStarted >>
    /\ UNCHANGED << analyses, lastUpdated, agentGroups, publishedFrom, marketPicks,
                    picksFrom, pureVars >>

\* setInterval(fetchAnalysis, 120000), set while holdings is non-empty
TimerTick ==
    /\ Len(fnHoldings) > 0
    /\ UNCHANGED fnHoldings
    /\ StartFetchAnalysis
    /\ UNCHANGED << holdings, analyses, lastUpdated, agentGroups, publishedFrom,
                    picksVars, pureVars >>

\* the refresh button: onClick={fetchAnalysis} disabled={loading}
ManualRefresh ==
    /\ Len(holdings) > 0
    /\ ~loading
    /\ UNCHANGED fnHoldings
    /\ StartFetchAnalysis
    /\ UNCHANGED << holdings, analyses, lastUpdated, agentGroups, publishedFrom,
                    picksVars, pureVars >>

FetchAnalysisThrows_ClearsAnalyses(c) ==
    /\ error' = "network"
    /\ loading' = FALSE
    /\ analyses' = << >>
    /\ inflight' = inflight \ {c}
    /\ UNCHANGED << holdings, fnHoldings, lastUpdated, agentGroups,
                    started, publishedFrom, picksVars, pureVars >>

\* fetchAnalysis after its awaits: a fetch or a json() threw
FetchAnalysisThrows(c) ==
    /\ error' = "network"
    /\ loading' = FALSE
    /\ inflight' = inflight \ {c}
    /\ UNCHANGED << holdings, fnHoldings, analyses, lastUpdated, agentGroups,
                    started, publishedFrom, picksVars, pureVars >>

FetchAnalysisResumes_KeepsOldQuotes(c, quoteData, agentData) ==
    /\ IF ~agentData.success
       THEN /\ error' = "backend"
            /\ UNCHANGED << analyses, lastUpdated, agentGroups, publishedFrom >>
       ELSE /\ analyses' =
                   BuildResults(c.holdings,
                                IF publishedFrom # NoCycle
                                THEN publishedFrom.quoteData ELSE quoteData,
                                agentData)
            /\ lastUpdated' = "time"
            /\ agentGroups' = PresentGroups(agentData.data)
            /\ publishedFrom' = [id |-> c.id, holdings |-> c.holdings,
                                 quoteData |-> quoteData, agentData |-> agentData]
            /\ UNCHANGED error
    /\ loading' = FALSE
    /\ inflight' = inflight \ {c}
    /\ UNCHANGED << holdings, fnHoldings, started, picksVars, pureVars >>

\* fetchAnalysis after its awaits: the three bodies were read
FetchAnalysisResumes(c, quoteData, agentData) ==
    /\ IF ~agentData.success
       THEN /\ error' = "backend"
            /\ UNCHANGED << analyses, lastUpdated, agentGroups, publishedFrom >>
       ELSE /\ analyses' = BuildResults(c.holdings, quoteData, agentData)
            /\ lastUpdated' = "time"
            /\ agentGroups' = PresentGroups(agentData.data)
            /\ publishedFrom' = [id |-> c.id, holdings |-> c.holdings,
                                 quoteData |-> quoteData, agentData |-> agentData]
            /\ UNCHANGED error
    /\ loading' = FALSE
    /\ inflight' = inflight \ {c}
    /\ UNCHANGED << holdings, fnHoldings, started, picksVars, pureVars >>

\* the bodies the quote route can answer a cycle with
QuoteDatas(c, upstreams) == {GET(CodesOf(c.holdings), up) : up \in upstreams}

FetchAnalysisCompletes ==
    \E c \in inflight :
        \/ FetchAnalysisThrows(c)
        \/ \E quoteData \in QuoteDatas(c, SchedUpstreams),
              agentData \in SchedAgentDatas(CodeSet(c.holdings)) :
               FetchAnalysisResumes(c, quoteData, agentData)

FetchMarketPicksThrows_SharedError(c) ==
    /\ error' = "network"
    /\ picksLoading' = FALSE
    /\ picksInflight' = picksInflight \ {c}
    /\ UNCHANGED << marketPicks, picksError, picksStarted, picksFrom, holdings,
                    fnHoldings, analyses, loading, lastUpdated, agentGroups,
                    inflight, started, publishedFrom, pureVars >>

\* fetchMarketPicks after its await: the fetch or json() threw
FetchMarketPicksThrows(c) ==
    /\ picksError' = "network"
    /\ picksLoading' = FALSE
    /\ picksInflight' = picksInflight \ {c}
    /\ UNCHANGED << marketPicks, picksStarted, picksFrom, compVars, pureVars >>

\* fetchMarketPicks after its await: the body was read
FetchMarketPicksResumes(c, data) ==
    /\ IF ~data.success
       THEN /\ picksError' = "backend"
            /\ UNCHANGED << marketPicks, picksFrom >>
       ELSE /\ marketPicks' = data
            /\ picksFrom' = [id |-> c.id]
            /\ UNCHANGED picksError
    /\ picksLoading' = FALSE
    /\ picksInflight' = picksInflight \ {c}
    /\ UNCHANGED << picksStarted, compVars, pureVars >>

FetchMarketPicksCompletes ==
    \E c \in picksInflight :
        \/ FetchMarketPicksThrows(c)
        \/ \E data \in PicksDatas : FetchMarketPicksResumes(c, data)

\* setInterval(fetchMarketPicks, 300000), set while holdings is non-empty
PicksTimerTick ==
    /\ Len(fnHoldings) > 0
    /\ UNCHANGED << marketPicks, picksFrom, compVars, pureVars >>
    /\ StartFetchMarketPicks

\* the re-pick button: onClick={fetchMarketPicks} disabled={picksLoading}
ManualPicksRefresh ==
    /\ Len(holdings) > 0
    /\ ~picksLoading
    /\ UNCHANGED << marketPicks, picksFrom, compVars, pureVars >>
    /\ StartFetchMarketPicks

\* the variables of the pure-function specifications before they are used
IdleCalc == agentSignals = EmptyRecord /\ overall = NoResult

IdleRoll == rollup = NoResult

IdleScreen ==
    /\ quoteJson = NoBody
    /\ marketData = NoBody
    /\ sectorData = NoBody
    /\ stockAnalyses = << >>
    /\ buyCandidate = NoCandidate
    /\ screening = TRUE

IdleRisk == portfolio = NoPortfolio /\ riskScore = 0

\* Dashboard before any click on the re-analyse button
IdleRun ==
    /\ analysisRunning = FALSE
    /\ running = FALSE
    /\ logs = << >>
    /\ signals = << >>
    /\ runs = {}
    /\ triggers = 0
    /\ signalsFrom = NoCycle

\* the proxy routes before any request
IdleProxy ==
    /\ proxyCall = [r \in Routes |-> NoCall]
    /\ proxyResponse = [r \in Routes |-> NoResponse]

IdleDash == IdleRun /\ IdleProxy

Init ==
    /\ InitComp
    /\ IdleCalc
    /\ IdleRoll
    /\ IdleScreen
    /\ IdleRisk
    /\ IdleDash

Next ==
    \/ \E hs \in HoldingsChoices : PortfolioRefresh(hs)
    \/ TimerTick
    \/ ManualRefresh
    \/ FetchAnalysisCompletes
    \/ PicksTimerTick
    \/ ManualPicksRefresh
    \/ FetchMarketPicksCompletes

Spec == Init /\ [][Next]_vars

(***************************************************************************)
(* SpecCycle: the first analysis cycle after the holdings arrive, answered *)
(* by the full family of responses.                                        *)
(***************************************************************************)
FirstRefresh ==
    /\ started = 0
    /\ \E hs \in HoldingsChoices : PortfolioRefresh(hs)

FirstCycleCompletes ==
    \E c \in inflight :
        \/ FetchAnalysisThrows(c)
        \/ \E quoteData \in QuoteDatas(c, CycleUpstreams),
              agentData \in CycleAgentDatas(CodeSet(c.holdings)) :
               FetchAnalysisResumes(c, quoteData, agentData)

NextCycle ==
    \/ FirstRefresh
    \/ FirstCycleCompletes

SpecCycle == Init /\ [][NextCycle]_vars

(***************************************************************************)
(* SpecCalc: calcOverall applied to every verdict record of the family.    *)
(***************************************************************************)
InitCalc ==
    /\ agentSignals \in SignalRecords(FirstAgents(MaxVerdicts), CalcConfidences)
    /\ overall = NoResult
    /\ InitComp
    /\ IdleRoll
    /\ IdleScreen
    /\ IdleRisk
    /\ IdleDash

Aggregate ==
    /\ overall = NoResult
    /\ overall' = calcOverall(agentSignals)
    /\ UNCHANGED << agentSignals, compVars, picksVars, rollVars, screenVars, riskVars,
                 dashVars >>

NextCalc == Aggregate

SpecCalc == InitCalc /\ [][NextCalc]_vars

(***************************************************************************)
(* SpecRollup: the portfolio summary a render derives from analyses.       *)
(***************************************************************************)
\* holdings in the analyses list of SpecRollup
MaxHoldings == 4

\* the two fields of a HoldingAnalysis the summary reads
RollupEntries ==
    [overallSignal : Signals, overallConfidence : CalcConfidences]

RollupInputs ==
    UNION {[1..n -> RollupEntries] : n \in 0..MaxHoldings}

\* analyses.filter(a => a.overallSignal === s).length
HoldingCount(as, s) == Cardinality({i \in 1..Len(as) : as[i].overallSignal = s})

\* analyses.reduce((s, a) => s + a.overallConfidence, 0)
RECURSIVE SumOverallConfidence(_)
SumOverallConfidence(as) ==
    IF Len(as) = 0 THEN 0
    ELSE Head(as).overallConfidence + SumOverallConfidence(Tail(as))

\* analyses.length > 0 ? Math.round(sum / analyses.length) : 0
AvgConf(as) ==
    IF Len(as) > 0 THEN MathRound(SumOverallConfidence(as), Len(as)) ELSE 0

RollupMajority_NoEmptyGuard(as) == MathCeil(Len(as), 2)

\* analyses.length > 0 ? Math.ceil(analyses.length / 2) : 2
RollupMajority(as) == IF Len(as) > 0 THEN MathCeil(Len(as), 2) ELSE 2

\* bullishCount >= majority ? 'bullish' : bearishCount >= majority ? 'bearish' : 'neutral'
PortfolioSignal(as) ==
    IF HoldingCount(as, "bullish") >= RollupMajority(as) THEN "bullish"
    ELSE IF HoldingCount(as, "bearish") >= RollupMajority(as) THEN "bearish"
    ELSE "neutral"

Rollup(as) ==
    [signal          |-> "rendered",
     bullishCount    |-> HoldingCount(as, "bullish"),
     bearishCount    |-> HoldingCount(as, "bearish"),
     neutralCount    |-> HoldingCount(as, "neutral"),
     avgConf         |-> AvgConf(as),
     portfolioSignal |-> PortfolioSignal(as)]

InitRollup ==
    /\ analyses \in RollupInputs
    /\ rollup = NoResult
    /\ IdleCycles
    /\ IdleCalc
    /\ IdleScreen
    /\ IdleRisk
    /\ IdleDash

\* a render of AgentDecisions with this analyses state
Render ==
    /\ rollup = NoResult
    /\ rollup' = Rollup(analyses)
    /\ UNCHANGED << compVars, picksVars, calcVars, screenVars, riskVars, dashVars >>

NextRollup == Render

SpecRollup == InitRollup /\ [][NextRollup]_vars

(***************************************************************************)
(* SpecScreen: fetchAll of the rule-based AgentDecisions (part_004), which *)
(* publishes the buy candidate from the stocks of the top sector.          *)
(***************************************************************************)
\* stocks in the answer of the sector-stocks route
MaxStocks == 2

\* HOLDINGS.map(h => h.code)
HOLDINGS == << "300394", "002916", "600183", "300308", "002463", "300502" >>

\* new Set(HOLDINGS.map(h => h.code))
holdingCodes == {HOLDINGS[i] : i \in 1..Len(HOLDINGS)}

\* the codes the sector list is drawn from: one held, two not held
SectorCodes == {"300394", "688981", "603986"}

\* one element of stocks as the sector-stocks route builds it: f12, f3 and
\* f62 of the feed passed through unconverted, so a suspended stock has '-'
\* for its change and its inflow
SectorStocks ==
    {[code |-> c, changePct |-> Num(p), mainNetInflow |-> Num(f)] :
        c \in SectorCodes, p \in {1, 5, 9},
        f \in {-500000000, 0, 500000000, 1500000000}}
    \cup {[code |-> c, changePct |-> Dash, mainNetInflow |-> Dash] : c \in SectorCodes}

\* what the /api/sector-stocks request can end in
SectorDatas ==
    { [threw |-> TRUE, success |-> FALSE, stocks |-> << >>],
      [threw |-> FALSE, success |-> FALSE, stocks |-> << >>] }
    \cup {[threw |-> FALSE, success |-> TRUE, stocks |-> st] :
            st \in UNION {[1..n -> SectorStocks] : n \in 0..MaxStocks}}

\* what the /api/market request can end in, as far as fetchAll reads it
MarketDatas ==
    { [success |-> FALSE, sectors |-> << >>],
      [success |-> TRUE, sectors |-> << >>],
      [success |-> TRUE, sectors |-> << [code |-> "BK0477", name |-> "sector"] >>] }

\* what the /api/quote request can end in: the codes it has quotes for
\* (threw: the Promise.all of the quote and market requests rejected)
QuoteJsons ==
    { [threw |-> TRUE, success |-> FALSE, data |-> << >>],
      [threw |-> FALSE, success |-> FALSE, data |-> << >>],
      [threw |-> FALSE, success |-> TRUE, data |-> << "300394", "600183" >>] }

\* v > k and v < k of JavaScript, where '-' compares false with every number
Gt(v, k) == v.kind = "num" /\ v.n > k

Lt(v, k) == v.kind = "num" /\ v.n < k

\* HOLDINGS.map(h => allQuotes.find(d => d.code === h.code) ? ... : null)
\*         .filter(Boolean), as the codes of the StockAnalysis built
AnalysedCodes(allQuotes) ==
    LET Quoted(c) == \E i \in 1..Len(allQuotes) : allQuotes[i] = c
    IN  SelectSeq(HOLDINGS, Quoted)

Available_KeepsHeld(stocks) == stocks

\* sectorData.stocks.filter(s => !holdingCodes.has(s.code))
Available(stocks) ==
    LET NotHeld(s) == s.code \notin holdingCodes
    IN  SelectSeq(stocks, NotHeld)

Eligible_ClosedInterval(s) ==
    /\ s.changePct.kind = "num" /\ s.changePct.n >= 1 /\ s.changePct.n <= 9
    /\ Gt(s.mainNetInflow, 0)

\* s.changePct > 1 && s.changePct < 9 && s.mainNetInflow > 0
Eligible(s) == Gt(s.changePct, 1) /\ Lt(s.changePct, 9) /\ Gt(s.mainNetInflow, 0)

\* .sort((a, b) => b.mainNetInflow - a.mainNetInflow): stable, descending;
\* x comes after every element that is not smaller
RECURSIVE InsertByInflow(_, _)
InsertByInflow(x, sorted) ==
    IF Len(sorted) = 0 THEN << x >>
    ELSE IF Head(sorted).mainNetInflow.n >= x.mainNetInflow.n
         THEN << Head(sorted) >> \o InsertByInflow(x, Tail(sorted))
         ELSE << x >> \o sorted

RECURSIVE SortByInflow(_)
SortByInflow(s) ==
    IF Len(s) = 0 THEN << >>
    ELSE InsertByInflow(s[Len(s)], SortByInflow(SubSeq(s, 1, Len(s) - 1)))

\* available.filter(eligible).sort(by inflow)
Candidates(stocks) == SortByInflow(SelectSeq(Available(stocks), Eligible))

\* candidates[0] || available[0], where there is one
HasPick(stocks) == Len(Available(stocks)) > 0

Pick(stocks) ==
    IF Len(Candidates(stocks)) > 0 THEN Candidates(stocks)[1]
    ELSE Available(stocks)[1]

Score_Uncapped(pick) == 60 + pick.mainNetInflow.n \div 50000000

\* Math.min(85, 60 + pick.mainNetInflow / 1e8 * 2), the inflows of the
\* model being multiples of 5e7
Score(pick) ==
    LET raw == 60 + pick.mainNetInflow.n \div 50000000
    IN  IF raw > 85 THEN 85 ELSE raw

\* the object passed to setBuyCandidate (name, price and reasons left out)
Candidate(pick, topSector) ==
    [code       |-> pick.code,
     change     |-> pick.changePct.n,
     sectorName |-> topSector.name,
     score      |-> Score(pick)]

\* pick.changePct.toFixed(2) in reasons: a TypeError when changePct is '-'
ReasonsThrow(pick) == pick.changePct.kind # "num"

InitScreen ==
    /\ quoteJson \in QuoteJsons
    /\ marketData \in MarketDatas
    /\ sectorData \in SectorDatas
    /\ stockAnalyses = << >>
    /\ buyCandidate = NoCandidate
    /\ screening = TRUE
    /\ InitComp
    /\ IdleCalc
    /\ IdleRoll
    /\ IdleRisk
    /\ IdleDash

\* the first call of fetchAll, from its start to its finally
FetchAll ==
    /\ screening
    /\ screening' = FALSE
    /\ IF quoteJson.threw
       THEN UNCHANGED << stockAnalyses, buyCandidate >>
       ELSE /\ stockAnalyses' = IF quoteJson.success
                                THEN AnalysedCodes(quoteJson.data)
                                ELSE stockAnalyses
            /\ IF /\ marketData.success
                  /\ Len(marketData.sectors) > 0
                  /\ ~sectorData.threw
                  /\ sectorData.success
                  /\ HasPick(sectorData.stocks)
                  /\ ~ReasonsThrow(Pick(sectorData.stocks))
               THEN buyCandidate' =
                        Candidate(Pick(sectorData.stocks), marketData.sectors[1])
               ELSE UNCHANGED buyCandidate
    /\ UNCHANGED << quoteJson, marketData, sectorData, compVars, picksVars,
                    calcVars, rollVars, riskVars, dashVars >>

NextScreen == FetchAll

SpecScreen == InitScreen /\ [][NextScreen]_vars

(***************************************************************************)
(* SpecRisk: RiskGauge (part_006), the risk score of a portfolio.          *)
(***************************************************************************)
\* positions in the portfolio of SpecRisk
MaxPositions == 2

\* p.positions as fetchPortfolio builds them, cost and shares only
RiskPositions == [cost : {100}, shares : {3, 5, 10}]

\* the portfolio prop: null, or the totals the portfolio route reports,
\* which are fields of their own and not derived from positions
Portfolios ==
    {NoPortfolio}
    \cup {[present          |-> TRUE,
           totalAssets      |-> ta,
           totalMarketValue |-> mv,
           totalPnl         |-> pnl,
           positions        |-> ps] :
            ta \in {0, 1000, 2000},
            mv \in {700, 850, 1300, 1500, 1800},
            pnl \in {-60, -50, -40, -30, 300},
            ps \in UNION {[1..n -> RiskPositions] : n \in 0..MaxPositions}}

\* Math.max(...positions.map(p => p.shares * p.cost)), 0 for no position
RECURSIVE maxPositionValue(_)
maxPositionValue(ps) ==
    IF Len(ps) = 0 THEN 0
    ELSE LET v    == Head(ps).shares * Head(ps).cost
             rest == maxPositionValue(Tail(ps))
         IN  IF v > rest THEN v ELSE rest

\* positions.reduce((s, p) => s + p.shares * p.cost, 0)
RECURSIVE totalCost(_)
totalCost(ps) ==
    IF Len(ps) = 0 THEN 0
    ELSE Head(ps).shares * Head(ps).cost + totalCost(Tail(ps))

PositionRatioOver_AtLeast(p, k) == p.totalMarketValue * 100 >= k * p.totalAssets

\* positionRatio > k, for positionRatio = (totalMarketValue / totalAssets) * 100
\* and totalAssets > 0
PositionRatioOver(p, k) == p.totalMarketValue * 100 > k * p.totalAssets

ConcentrationOver_MarketValue(p, k) == p.totalMarketValue * 100 > k * p.totalAssets

\* concentration > k, for concentration = (maxPositionValue / totalAssets) * 100
ConcentrationOver(p, k) == maxPositionValue(p.positions) * 100 > k * p.totalAssets

\* currentPnlPct < k, for
\* currentPnlPct = totalCost > 0 ? (totalPnl / totalCost) * 100 : 0
PnlPctUnder(p, k) ==
    IF totalCost(p.positions) > 0
    THEN p.totalPnl * 100 < k * totalCost(p.positions)
    ELSE 0 < k

\* the concentration tiers exchanged
MetricsScore_TiersSwapped(p) ==
    LET exposure == IF PositionRatioOver(p, 85) THEN 20
                    ELSE IF PositionRatioOver(p, 70) THEN 10 ELSE 0
        concentration == IF ConcentrationOver(p, 50) THEN 10
                         ELSE IF ConcentrationOver(p, 30) THEN 25 ELSE 0
        loss == IF PnlPctUnder(p, -5) THEN 20
                ELSE IF PnlPctUnder(p, -3) THEN 10 ELSE 0
        score == 20 + exposure + concentration + loss
    IN  IF score < 100 THEN score ELSE 100

\* a gain taken off the score, percent for point
MetricsScore_GainLowersScore(p) ==
    LET exposure == IF PositionRatioOver(p, 85) THEN 20
                    ELSE IF PositionRatioOver(p, 70) THEN 10 ELSE 0
        concentration == IF ConcentrationOver(p, 50) THEN 25
                         ELSE IF ConcentrationOver(p, 30) THEN 10 ELSE 0
        loss == IF totalCost(p.positions) > 0
                THEN -((p.totalPnl * 100) \div totalCost(p.positions)) ELSE 0
        score == 20 + exposure + concentration + loss
    IN  IF score < 100 THEN score ELSE 100

\* the score of calcMetrics for a portfolio with totalAssets > 0
MetricsScore(p) ==
    LET base == 20
        exposure == IF PositionRatioOver(p, 85) THEN 20
                    ELSE IF PositionRatioOver(p, 70) THEN 10 ELSE 0
        concentration == IF ConcentrationOver(p, 50) THEN 25
                         ELSE IF ConcentrationOver(p, 30) THEN 10 ELSE 0
        loss == IF PnlPctUnder(p, -5) THEN 20
                ELSE IF PnlPctUnder(p, -3) THEN 10 ELSE 0
        score == base + exposure + concentration + loss
    IN  IF score < 100 THEN score ELSE 100

targetScore_FallbackBase(p) ==
    IF ~p.present \/ p.totalAssets <= 0 THEN 20 ELSE MetricsScore(p)

\* targetScore: calcMetrics returns the default metrics array, which has no
\* score, when there is no portfolio or totalAssets <= 0, and then
\* (result as any).score ?? 35 is 35
targetScore(p) ==
    IF ~p.present \/ p.totalAssets <= 0 THEN 35 ELSE MetricsScore(p)

\* riskMetrics, as the labels of the metrics rendered: the metrics of the
\* object calcMetrics returns, and [] for the default array, which is an
\* object without a metrics field
riskMetrics(p) ==
    IF ~p.present \/ p.totalAssets <= 0 THEN << >>
    ELSE << "pnl", "position", "concentration", "stopLoss", "count" >>

\* riskScore < 30 ? low : riskScore < 60 ? medium : high
riskLevel(score) ==
    IF score < 30 THEN "low" ELSE IF score < 60 THEN "medium" ELSE "high"

InitRisk ==
    /\ portfolio \in Portfolios
    /\ riskScore = 0
    /\ InitComp
    /\ IdleCalc
    /\ IdleRoll
    /\ IdleScreen
    /\ IdleDash

\* setTimeout(() => setRiskScore(targetScore), 500) of the effect fires
SetRiskScore ==
    /\ riskScore # targetScore(portfolio)
    /\ riskScore' = targetScore(portfolio)
    /\ UNCHANGED << portfolio, compVars, picksVars, calcVars, rollVars, screenVars,
                 dashVars >>

NextRisk == SetRiskScore

SpecRisk == InitRisk /\ [][NextRisk]_vars

(***************************************************************************)
(* SpecRun: Dashboard.runAnalysis, started from the re-analyse button of   *)
(* AgentChat, while fetchPortfolio delivers holdings.                      *)
(***************************************************************************)
\* the variables a step of runAnalysis leaves alone
notRunVars == << calcVars, compVars, picksVars, rollVars, screenVars, riskVars,
                 proxyVars >>

\* a quote as the quote route builds it, with the day's high and low
DashQuoteOf(d) ==
    LET price == safeFloat(d.f2, 0)
    IN  [code    |-> d.f12,
         current |-> price,
         percent |-> safeFloat(d.f3, 0),
         high    |-> safeFloat(d.f15, price),
         low     |-> safeFloat(d.f16, price)]

\* the JSON body the quote route answers with, all the fields runAnalysis reads
DashGET(codes, upstream) ==
    IF Len(codes) = 0 THEN [success |-> FALSE, data |-> << >>]
    ELSE IF upstream.threw THEN [success |-> FALSE, data |-> << >>]
    ELSE IF Len(upstream.diff) = 0 THEN [success |-> FALSE, data |-> << >>]
    ELSE [success |-> TRUE,
          data |-> [i \in 1..Len(upstream.diff) |-> DashQuoteOf(upstream.diff[i])]]

\* the feed: CodeA at 13, 19 or 22 with a day change between -6 and 9 (or
\* '-'), its high and low missing or, on a day it is up 1 or 3, 1 above and
\* 3 below the price; CodeB at 13 and up 3
RunEntries ==
    {[f12 |-> CodeA, f2 |-> Num(p), f3 |-> c, f15 |-> Dash, f16 |-> Dash] :
        p \in {13, 19, 22},
        c \in {Num(9), Num(6), Num(3), Num(1), Dash, Num(-3), Num(-6)}}
    \cup {[f12 |-> CodeA, f2 |-> Num(p), f3 |-> c,
           f15 |-> Num(p + 1), f16 |-> Num(p - 3)] :
            p \in {13, 19, 22}, c \in {Num(3), Num(1)}}
    \cup {[f12 |-> CodeB, f2 |-> Num(13), f3 |-> Num(3), f15 |-> Dash, f16 |-> Dash]}

\* quoteData of a run: null when the fetch or json() threw, else the body
RunQuoteDatas(hs) ==
    {NoBody} \cup {DashGET(CodesOf(hs), u) : u \in Upstreams(RunEntries)}

\* ((q.current - holding.cost) / holding.cost) * 100 > k; a cost of 0 makes
\* the quotient Infinity, or NaN for a price of 0
HoldingPnlOver(q, h, k) ==
    IF h.cost > 0 THEN (q.current - h.cost) * 100 > k * h.cost
    ELSE IF h.cost = 0 THEN q.current > 0
    ELSE (q.current - h.cost) * 100 < k * h.cost

\* ((q.current - holding.cost) / holding.cost) * 100 < k
HoldingPnlUnder(q, h, k) ==
    IF h.cost > 0 THEN (q.current - h.cost) * 100 < k * h.cost
    ELSE IF h.cost = 0 THEN q.current < 0
    ELSE (q.current - h.cost) * 100 > k * h.cost

\* (q.high > 0 ? ((q.current - q.low) / (q.high - q.low)) * 100 : 50) > k
DayRangeOver(q, k) ==
    IF q.high > 0
    THEN IF q.high > q.low THEN (q.current - q.low) * 100 > k * (q.high - q.low)
         ELSE IF q.high = q.low THEN q.current > q.low
         ELSE (q.current - q.low) * 100 < k * (q.high - q.low)
    ELSE 50 > k

TradeSignal_MomentumFirst(h, q) ==
    LET a == IF q.percent > 8 /\ HoldingPnlOver(q, h, 20) THEN << "sell", 82 >>
             ELSE IF q.percent > 5 /\ HoldingPnlOver(q, h, 15) THEN << "sell", 72 >>
             ELSE IF q.percent > 0 /\ DayRangeOver(q, 70) THEN << "buy", 65 >>
             ELSE IF HoldingPnlUnder(q, h, -8) THEN << "sell", 75 >>
             ELSE IF q.percent < -5 /\ HoldingPnlUnder(q, h, -3) THEN << "sell", 65 >>
             ELSE IF /\ q.percent > 2
                     /\ HoldingPnlOver(q, h, -5)
                     /\ HoldingPnlUnder(q, h, 15) THEN << "buy", 68 >>
             ELSE IF q.percent < -2 /\ HoldingPnlOver(q, h, 10) THEN << "hold", 65 >>
             ELSE IF q.percent < 1 /\ q.percent > -1 THEN << "hold", 60 >>
             ELSE << "hold", 58 >>
    IN  [code |-> h.code, action |-> a[1], confidence |-> a[2]]

\* the signal runAnalysis pushes for a holding and its quote: the first rule
\* of the chain that applies
TradeSignal(h, q) ==
    LET a == IF q.percent > 8 /\ HoldingPnlOver(q, h, 20) THEN << "sell", 82 >>
             ELSE IF q.percent > 5 /\ HoldingPnlOver(q, h, 15) THEN << "sell", 72 >>
             ELSE IF HoldingPnlUnder(q, h, -8) THEN << "sell", 75 >>
             ELSE IF q.percent < -5 /\ HoldingPnlUnder(q, h, -3) THEN << "sell", 65 >>
             ELSE IF /\ q.percent > 2
                     /\ HoldingPnlOver(q, h, -5)
                     /\ HoldingPnlUnder(q, h, 15) THEN << "buy", 68 >>
             ELSE IF q.percent > 0 /\ DayRangeOver(q, 70) THEN << "buy", 65 >>
             ELSE IF q.percent < -2 /\ HoldingPnlOver(q, h, 10) THEN << "hold", 65 >>
             ELSE IF q.percent < 1 /\ q.percent > -1 THEN << "hold", 60 >>
             ELSE << "hold", 58 >>
    IN  [code |-> h.code, action |-> a[1], confidence |-> a[2]]

\* newSignals after the loop over the holdings: one signal for every
\* holding that quoteData.data has a quote for, none when quoteData is null
\* or unsuccessful
NewSignals(hs, quoteData) ==
    IF ~quoteData.success THEN << >>
    ELSE LET Found(h) == HasQuote(quoteData.data, h.code)
             found == SelectSeq(hs, Found)
         IN  [i \in 1..Len(found) |->
                 TradeSignal(found[i], FindQuote(quoteData.data, found[i].code))]

\* n log entries of one agent
Entries(agent, n) == [i \in 1..n |-> agent]

\* newSignals.filter(s => s.action !== 'hold').length
NonHold(sigs) == Cardinality({i \in 1..Len(sigs) : sigs[i].action # "hold"})

\* runAnalysis past its two guards, up to its first await; React commits
\* the state set in a click handler before the next event is dispatched
StartRun ==
    /\ analysisRunning' = TRUE
    /\ running' = TRUE
    /\ logs' = << "SYSTEM" >>
    /\ signals' = << >>
    /\ runs' = runs \cup {[id |-> triggers + 1, holdings |-> holdings, pc |-> "market",
                           marketOk |-> FALSE, quoteData |-> NoBody,
                           newSignals |-> << >>]}
    /\ signalsFrom' = NoCycle

\* a call of runAnalysis; its analysisRunning is that of the render the
\* callback was built in
runAnalysis ==
    IF running
    THEN UNCHANGED << analysisRunning, running, logs, signals, runs, signalsFrom >>
    ELSE IF Len(holdings) = 0
    THEN /\ logs' = Append(logs, "SYSTEM")
         /\ UNCHANGED << analysisRunning, running, signals, runs, signalsFrom >>
    ELSE StartRun

ClickReanalyze_NotDisabled ==
    /\ triggers < MaxTriggers
    /\ triggers' = triggers + 1
    /\ IF Len(holdings) = 0
       THEN /\ logs' = Append(logs, "SYSTEM")
            /\ UNCHANGED << analysisRunning, running, signals, runs, signalsFrom >>
       ELSE StartRun
    /\ UNCHANGED notRunVars

\* a click on the button of AgentChat: onClick={onReanalyze} disabled={running}
ClickReanalyze ==
    /\ triggers < MaxTriggers
    /\ triggers' = triggers + 1
    /\ IF running
       THEN UNCHANGED << analysisRunning, running, logs, signals, runs, signalsFrom >>
       ELSE runAnalysis
    /\ UNCHANGED notRunVars

\* a run after the /api/market request: 5 entries when the body has both
\* indices and a sector, 3 when the request threw
RunMarket(r, ok) ==
    /\ r.pc = "market"
    /\ logs' = logs \o Entries("MarketAnalyst", IF ok THEN 5 ELSE 3)
    /\ runs' = (runs \ {r}) \cup {[r EXCEPT !.pc = "quote", !.marketOk = ok]}
    /\ UNCHANGED << analysisRunning, running, signals, triggers, signalsFrom, notRunVars >>

\* a run after the /api/quote request, up to the end of the loop over the
\* holdings
RunQuotes(r, quoteData) ==
    LET sigs == NewSignals(r.holdings, quoteData)
    IN  /\ r.pc = "quote"
        /\ logs' = logs \o Entries("TechAnalyst",
                                   2 + (IF quoteData = NoBody THEN 1 ELSE 0) + Len(sigs))
        /\ runs' = (runs \ {r})
                   \cup {[r EXCEPT !.pc = "decide", !.quoteData = quoteData,
                                   !.newSignals = sigs]}
        /\ UNCHANGED << analysisRunning, running, signals, triggers, signalsFrom,
                        notRunVars >>

\* a run from the fundamentals step to its finally
RunFinishes(r) ==
    /\ r.pc = "decide"
    /\ logs' = logs \o Entries("FundAnalyst", 2 + Len(r.holdings))
                    \o Entries("SentimentAnalyst", IF r.marketOk THEN 2 ELSE 1)
                    \o Entries("RiskManager", 3)
                    \o Entries("PortfolioMgr", 3 + NonHold(r.newSignals))
                    \o << "SYSTEM" >>
    /\ signals' = r.newSignals
    /\ signalsFrom' = r
    /\ analysisRunning' = FALSE
    /\ runs' = runs \ {r}
    /\ UNCHANGED << running, triggers, notRunVars >>

RunResumes ==
    \E r \in runs :
        \/ \E ok \in BOOLEAN : RunMarket(r, ok)
        \/ \E quoteData \in RunQuoteDatas(r.holdings) : RunQuotes(r, quoteData)
        \/ RunFinishes(r)

\* the render that follows setAnalysisRunning(false)
RenderDashboard ==
    /\ running # analysisRunning
    /\ running' = analysisRunning
    /\ UNCHANGED << analysisRunning, logs, signals, runs, triggers, signalsFrom,
                    notRunVars >>

NextRun ==
    \/ \E hs \in HoldingsChoices : PortfolioRefresh(hs)
    \/ ClickReanalyze
    \/ RunResumes
    \/ RenderDashboard

SpecRun == Init /\ [][NextRun]_vars

(***************************************************************************)
(* SpecProxy: POST of the two proxy routes, /api/agents and                *)
(* /api/market-picks, which differ in their backend path and timeout.      *)
(***************************************************************************)
TIMEOUT_MS(route) == IF route = "agents" THEN 300000 ELSE 180000

\* the bodies the backend answers with, as res.json() parses them, and a
\* body that is not JSON
BackendBodies ==
    { [success |-> TRUE, data |-> "verdicts"],
      [success |-> FALSE, error |-> "no data"] }

NotJson == [text |-> "html"]

\* the responses fetch can resolve with
BackendReplies ==
    [status : {200, 201, 400, 404, 422, 500, 502}, body : BackendBodies \cup {NotJson}]

\* res.ok
Ok(res) == res.status >= 200 /\ res.status <= 299

\* what a rejected await throws: its name, code and cause.code
SyntaxError == [name |-> "SyntaxError", code |-> "none", cause |-> "none"]
AbortError == [name |-> "AbortError", code |-> "none", cause |-> "none"]

\* what fetch can reject with, other than the abort of the route's timer
FetchErrors ==
    { [name |-> "TypeError", code |-> "none", cause |-> "ECONNREFUSED"],
      [name |-> "Error", code |-> "ECONNREFUSED", cause |-> "none"],
      [name |-> "TypeError", code |-> "none", cause |-> "ECONNRESET"],
      [name |-> "TimeoutError", code |-> "none", cause |-> "none"] }

Catch_DirectCodeOnly(e) ==
    IF e.name = "AbortError" \/ e.name = "TimeoutError"
    THEN [status |-> 503, body |-> [success |-> FALSE, error |-> "timeout"]]
    ELSE IF e.code = "ECONNREFUSED"
    THEN [status |-> 503, body |-> [success |-> FALSE, error |-> "refused"]]
    ELSE [status |-> 500, body |-> [success |-> FALSE, error |-> e.name]]

\* the catch block of POST
Catch(e) ==
    IF e.name = "AbortError" \/ e.name = "TimeoutError"
    THEN [status |-> 503, body |-> [success |-> FALSE, error |-> "timeout"]]
    ELSE IF e.code = "ECONNREFUSED" \/ e.cause = "ECONNREFUSED"
    THEN [status |-> 503, body |-> [success |-> FALSE, error |-> "refused"]]
    ELSE [status |-> 500, body |-> [success |-> FALSE, error |-> e.name]]

\* POST from the response of the backend on: the error body with the
\* backend's status, or the parsed body, or the catch when json() throws
Respond(res) ==
    IF ~Ok(res)
    THEN [status |-> res.status, body |-> [success |-> FALSE, error |-> "backend"]]
    ELSE IF res.body = NotJson THEN Catch(SyntaxError)
    ELSE [status |-> 200, body |-> res.body]

\* the handler returns: the route is idle again and remembers what the
\* request ended in
Return(route, how, response) ==
    /\ proxyCall' = [proxyCall EXCEPT ![route] = [pc |-> "idle", ended |-> how]]
    /\ proxyResponse' = [proxyResponse EXCEPT ![route] = response]
    /\ UNCHANGED << calcVars, compVars, picksVars, rollVars, screenVars, riskVars,
                    runVars >>

\* POST up to its await of fetchWithTimeout; request.json() may throw
POST(route, bodyParses) ==
    /\ proxyCall[route].pc = "idle"
    /\ IF bodyParses
       THEN /\ proxyCall' = [proxyCall EXCEPT
                                ![route] = [pc |-> "fetching", timer |-> TIMEOUT_MS(route)]]
            /\ proxyResponse' = [proxyResponse EXCEPT ![route] = NoResponse]
            /\ UNCHANGED << calcVars, compVars, picksVars, rollVars, screenVars,
                            riskVars, runVars >>
       ELSE Return(route, [kind |-> "request", e |-> SyntaxError], Catch(SyntaxError))

\* fetch resolves: the timer is cleared and POST runs to its return
BackendAnswers(route, res) ==
    /\ proxyCall[route].pc = "fetching"
    /\ Return(route, [kind |-> "reply", res |-> res], Respond(res))

\* fetch rejects
FetchRejects(route, e) ==
    /\ proxyCall[route].pc = "fetching"
    /\ Return(route, [kind |-> "error", e |-> e], Catch(e))

\* the timer of fetchWithTimeout fires: controller.abort() rejects fetch
TimerFires(route) ==
    /\ proxyCall[route].pc = "fetching"
    /\ Return(route, [kind |-> "abort", after |-> proxyCall[route].timer],
              Catch(AbortError))

NextProxy ==
    \E route \in Routes :
        \/ \E bodyParses \in BOOLEAN : POST(route, bodyParses)
        \/ \E res \in BackendReplies : BackendAnswers(route, res)
        \/ \E e \in FetchErrors : FetchRejects(route, e)
        \/ TimerFires(route)

\* setTimeout(() => controller.abort(), ms) fires unless it is cleared
SpecProxy ==
    Init /\ [][NextProxy]_vars /\ \A route \in Routes : WF_vars(TimerFires(route))

(***************************************************************************)
(* Properties of calcOverall, checked under SpecCalc.                      *)
(***************************************************************************)
Computed == overall # NoResult

\* the verdicts present in the input, counted from the input itself
N == Cardinality(DOMAIN agentSignals)

Votes(s) == Cardinality({a \in DOMAIN agentSignals : agentSignals[a].signal = s})

ConfidenceSum == SumConfidence(agentSignals)

\* C1: for every non-empty verdict set the overall signal is bullish when at
\* least half of the n verdicts (>= ceil(n/2)) are bullish, otherwise bearish
\* when at least half are bearish, otherwise neutral; 5 verdicts 3/1/1 give
\* bullish and 5 verdicts 2/2/1 give neutral.
C1_MajorityRule ==
    (Computed /\ N > 0) =>
        /\ overall.signal =
               IF 2 * Votes("bullish") >= N THEN "bullish"
               ELSE IF 2 * Votes("bearish") >= N THEN "bearish"
               ELSE "neutral"
        /\ (N = 5 /\ Votes("bullish") = 3 /\ Votes("bearish") = 1)
               => overall.signal = "bullish"
        /\ (N = 5 /\ Votes("bullish") = 2 /\ Votes("bearish") = 2)
               => overall.signal = "neutral"

C1_Witness ==
    /\ Computed
    /\ N = 5 /\ Votes("bullish") = 3 /\ Votes("bearish") = 1 /\ Votes("neutral") = 1
    /\ overall.signal = "bullish"

\* C2 (as claimed): a non-neutral overall signal is reported only when that
\* direction holds strictly more than half of the present verdicts, so an
\* even split 2 bullish / 2 bearish of 4 is neutral.
C2_AbsoluteMajorityOnly ==
    Computed =>
        /\ overall.signal = "bullish" => 2 * Votes("bullish") > N
        /\ overall.signal = "bearish" => 2 * Votes("bearish") > N
        /\ (N = 4 /\ Votes("bullish") = 2 /\ Votes("bearish") = 2)
               => overall.signal = "neutral"

\* C3: the returned bullish + bearish + neutral counts sum to the number of
\* verdicts passed in.
C3_TallySumsToN ==
    Computed => overall.bullish + overall.bearish + overall.neutral = N

C3_Witness ==
    /\ Computed
    /\ N >= 3
    /\ overall.bullish >= 1 /\ overall.bearish >= 1 /\ overall.neutral >= 1

\* C6: for every non-empty verdict set the overall confidence is an integer
\* nearest to the arithmetic mean of the present confidences (it differs
\* from the mean by at most 1/2).
C6_ConfidenceIsRoundedMean ==
    (Computed /\ N > 0) =>
        2 * Abs(overall.confidence * N - ConfidenceSum) <= N

C6_Witness ==
    /\ Computed
    /\ N = 4
    /\ ConfidenceSum % N # 0
    /\ overall.confidence * N > ConfidenceSum

\* C7 (as claimed): the overall confidence is the exact mean, that is
\* confidence * n equals the sum of the n confidences.
C7_ConfidenceIsExactMean ==
    (Computed /\ N > 0) => overall.confidence * N = ConfidenceSum

\* C7 (amended): the overall confidence is the mean rounded half-up to an
\* integer: mean - 1/2 < confidence <= mean + 1/2, and it is the exact mean
\* exactly when n divides the sum of the confidences.
C7_ConfidenceIsMeanRoundedHalfUp ==
    (Computed /\ N > 0) =>
        /\ 2 * N * overall.confidence <= 2 * ConfidenceSum + N
        /\ 2 * N * overall.confidence > 2 * ConfidenceSum - N
        /\ (overall.confidence * N = ConfidenceSum) <=> (ConfidenceSum % N = 0)

C7_Witness ==
    /\ Computed
    /\ N = 2
    /\ ConfidenceSum = 125
    /\ overall.confidence = 63

(***************************************************************************)
(* Properties of the analysis cycle, checked under SpecCycle and Spec.     *)
(***************************************************************************)
Published == publishedFrom # NoCycle

\* the agents whose response of the publishing cycle holds a signal for a code
Answered(code) ==
    {x \in DOMAIN publishedFrom.agentData.data :
        code \in DOMAIN publishedFrom.agentData.data[x]}

AnsweredWith(code, s) ==
    {x \in Answered(code) : publishedFrom.agentData.data[x][code].signal = s}

RECURSIVE AnsweredSum(_, _)
AnsweredSum(code, agents) ==
    IF agents = {} THEN 0
    ELSE LET x == CHOOSE y \in agents : TRUE
         IN  publishedFrom.agentData.data[x][code].confidence
             + AnsweredSum(code, agents \ {x})

\* C4: each holding's verdict is aggregated over exactly the agents whose
\* response holds a signal for the holding's code; an agent without one adds
\* no vote and is not in the confidence denominator (16 agents, 9 bullish at
\* 70 and 7 absent give n = 9, overall bullish, confidence 70).
C4_OnlyPresentAgentsCount ==
    Published =>
        \A i \in 1..Len(analyses) :
            LET a    == analyses[i]
                who  == Answered(a.code)
                n    == Cardinality(who)
                bull == Cardinality(AnsweredWith(a.code, "bullish"))
                bear == Cardinality(AnsweredWith(a.code, "bearish"))
                sum  == AnsweredSum(a.code, who)
            IN  /\ DOMAIN a.agentSignals = who
                /\ \A x \in who :
                       a.agentSignals[x] = publishedFrom.agentData.data[x][a.code]
                /\ n > 0 =>
                       /\ a.overallSignal =
                              IF 2 * bull >= n THEN "bullish"
                              ELSE IF 2 * bear >= n THEN "bearish"
                              ELSE "neutral"
                       /\ 2 * Abs(a.overallConfidence * n - sum) <= n
                /\ (publishedFrom.agentData.data = ScenarioData /\ a.code = CodeA) =>
                       /\ n = 9
                       /\ a.overallSignal = "bullish"
                       /\ a.overallConfidence = 70

C4_Witness ==
    /\ Published
    /\ publishedFrom.agentData.data = ScenarioData
    /\ Len(analyses) >= 1
    /\ analyses[1].code = CodeA
    /\ Cardinality(DOMAIN analyses[1].agentSignals) = 9
    /\ analyses[1].overallSignal = "bullish"
    /\ analyses[1].overallConfidence = 70

\* C5: a holding with zero verdicts is published with overall signal
\* neutral and confidence 0, and the tally calcOverall returns for it is
\* all zero; it is never published bullish or bearish.
C5_NoVerdictsIsNeutralZero ==
    \A i \in 1..Len(analyses) :
        DOMAIN analyses[i].agentSignals = {} =>
            /\ analyses[i].overallSignal = "neutral"
            /\ analyses[i].overallConfidence = 0
            /\ LET tally == calcOverall(analyses[i].agentSignals)
               IN  tally.bullish = 0 /\ tally.bearish = 0 /\ tally.neutral = 0

C5_Witness ==
    /\ Published
    /\ publishedFrom.agentData.data # EmptyRecord
    /\ \E i \in 1..Len(analyses) :
           /\ DOMAIN analyses[i].agentSignals = {}
           /\ analyses[i].overallSignal = "neutral"
           /\ analyses[i].overallConfidence = 0

\* C8 (as claimed): every confidence published in a HoldingAnalysis, each
\* agent's and the overall one, lies in [0,100] whatever the responses held.
C8_PublishedConfidenceInRange ==
    \A i \in 1..Len(analyses) :
        /\ analyses[i].overallConfidence \in 0..100
        /\ \A x \in DOMAIN analyses[i].agentSignals :
               analyses[i].agentSignals[x].confidence \in 0..100

\* C9 (as claimed): a holding whose quote is missing from a successful quote
\* response is left out of the published analyses of that cycle.
C9_MissingQuoteIsSkipped ==
    (Published /\ publishedFrom.quoteData.success) =>
        \A k \in 1..Len(publishedFrom.holdings) :
            ~HasQuote(publishedFrom.quoteData.data, publishedFrom.holdings[k].code) =>
                \A i \in 1..Len(analyses) :
                    analyses[i].code # publishedFrom.holdings[k].code

\* C10 (as claimed): a cycle whose quote route answered success:false is
\* aborted, so no published analyses is ever built from a failed quote batch.
C10_FailedQuoteBatchAborts ==
    Published => publishedFrom.quoteData.success

(***************************************************************************)
(* Properties of overlapping cycles, checked under Spec.                   *)
(***************************************************************************)
\* C11 (as claimed): of two holdings cycles the one started earlier never
\* writes analyses after the one started later has written it, and likewise
\* for market-picks cycles and marketPicks: every write comes from a cycle
\* started after the cycle of the write it replaces.
C11_NoOutOfOrderPublish ==
    [][ /\ publishedFrom' # publishedFrom => publishedFrom'.id > publishedFrom.id
        /\ picksFrom' # picksFrom => picksFrom'.id > picksFrom.id ]_vars

\* C12: analyses changes only in the one step that completes a cycle whose
\* agents response was a success, and then to a list with one entry for
\* every holding of that cycle; a step that starts a cycle or that reports a
\* failure leaves analyses as it was; marketPicks changes only to the body
\* of a successful picks response, in the step that completes that cycle.
C12_AtomicPublish ==
    [][ /\ analyses' # analyses =>
               \E c \in inflight \ inflight' :
                   /\ publishedFrom'.id = c.id
                   /\ publishedFrom'.agentData.success
                   /\ CodesOf(analyses') = CodesOf(c.holdings)
        /\ inflight' \ inflight # {} => analyses' = analyses
        /\ (error' # error /\ error' # NoError) => analyses' = analyses
        /\ marketPicks' # marketPicks =>
               /\ marketPicks'.success
               /\ picksInflight' # picksInflight
               /\ picksInflight' \subseteq picksInflight
        /\ (picksError' # picksError /\ picksError' # NoError) =>
               marketPicks' = marketPicks ]_vars

\* a second holdings cycle has failed and the result of the first is still shown
C12_Witness ==
    /\ publishedFrom.id = 1
    /\ started = 2
    /\ inflight = {}
    /\ error = "backend"
    /\ Len(analyses) = Len(publishedFrom.holdings)
    /\ Len(analyses) > 0
    /\ marketPicks.success

\* C13: the published analyses is built from the holdings, the quote body
\* and the agents body of one single cycle, the one that published it:
\* every entry takes its price and change from that cycle's quotes and its
\* agent signals from that cycle's agents body, however cycles overlap.
C13_PublishedFromOneCycle ==
    Published =>
        /\ Len(analyses) = Len(publishedFrom.holdings)
        /\ \A i \in 1..Len(analyses) :
               LET a      == analyses[i]
                   h      == publishedFrom.holdings[i]
                   quotes == IF publishedFrom.quoteData.success
                             THEN publishedFrom.quoteData.data ELSE << >>
                   sigs   == publishedFrom.agentData.data
                   found  == \E k \in 1..Len(quotes) : quotes[k].code = h.code
               IN  /\ a.code = h.code
                   /\ found =>
                          \E k \in 1..Len(quotes) :
                              /\ quotes[k].code = h.code
                              /\ a.price = quotes[k].current
                              /\ a.change = quotes[k].percent
                   /\ ~found => (a.price = 0 /\ a.change = 0)
                   /\ DOMAIN a.agentSignals =
                          {x \in DOMAIN sigs : h.code \in DOMAIN sigs[x]}
                   /\ \A x \in DOMAIN a.agentSignals :
                          a.agentSignals[x] = sigs[x][h.code]

\* two cycles overlapped, the later one published first and the earlier one
\* published over it
C13_Witness ==
    /\ started = 2
    /\ inflight = {}
    /\ publishedFrom.id = 1
    /\ error = NoError
    /\ Len(analyses) > 0
    /\ analyses[1].price = 13

\* C14: a step of a holdings cycle (its start by the timer or the button, or
\* its completion, successful or not) leaves marketPicks, picksLoading and
\* picksError unchanged, a step of a picks cycle leaves analyses, loading
\* and error unchanged, and cycles of either kind start only while the
\* holdings the callbacks were built for are non-empty.
C14_IndependentCycles ==
    [][ /\ (inflight' # inflight /\ picksInflight' = picksInflight) =>
               UNCHANGED << marketPicks, picksLoading, picksError >>
        /\ (picksInflight' # picksInflight /\ inflight' = inflight) =>
               UNCHANGED << analyses, loading, error >>
        /\ (started' # started \/ picksStarted' # picksStarted) =>
               Len(fnHoldings') > 0 ]_vars

\* the picks cycle published and the holdings cycle failed, each leaving
\* the other's state as it was
C14_Witness ==
    /\ marketPicks.success
    /\ ~picksLoading
    /\ picksError = NoError
    /\ error = "network"
    /\ ~loading
    /\ analyses = << >>
    /\ inflight = {}
    /\ picksInflight = {}

(***************************************************************************)
(* Properties of the portfolio summary, checked under SpecRollup.          *)
(***************************************************************************)
Rendered == rollup # NoResult

\* the analysed holdings, counted from the analyses list itself
H == Len(analyses)

HoldingVotes(s) == Cardinality({i \in 1..H : analyses[i].overallSignal = s})

\* C15: the portfolio signal is the majority rule over the H holding-level
\* overall signals: bullish when the bullish holdings are at least
\* ceil(H/2), otherwise bearish when the bearish holdings are at least
\* ceil(H/2), otherwise neutral; with H = 0 it is neutral.
C15_PortfolioMajorityRule ==
    Rendered =>
        rollup.portfolioSignal =
            IF H = 0 THEN "neutral"
            ELSE IF 2 * HoldingVotes("bullish") >= H THEN "bullish"
            ELSE IF 2 * HoldingVotes("bearish") >= H THEN "bearish"
            ELSE "neutral"

C15_Witness ==
    /\ Rendered
    /\ H = 3
    /\ HoldingVotes("bearish") = 2
    /\ HoldingVotes("bullish") = 1
    /\ rollup.portfolioSignal = "bearish"

\* with no analysed holding the summary is neutral
C15_WitnessEmpty == Rendered /\ H = 0 /\ rollup.portfolioSignal = "neutral"

(***************************************************************************)
(* Properties of the buy candidate, checked under SpecScreen.              *)
(***************************************************************************)
\* fetchAll ran and read a successful sector-stocks body for the top sector
Screened ==
    /\ ~screening
    /\ ~quoteJson.threw
    /\ marketData.success
    /\ Len(marketData.sectors) > 0
    /\ ~sectorData.threw
    /\ sectorData.success

Listed == {sectorData.stocks[i] : i \in 1..Len(sectorData.stocks)}

\* the stocks of the list that are not held, from the list itself
NonHeld == {s \in Listed : \A i \in 1..Len(HOLDINGS) : s.code # HOLDINGS[i]}

\* not held, change strictly between 1 and 9, inflow above 0
EligibleNonHeld ==
    {s \in NonHeld : /\ s.changePct.kind = "num"
                     /\ s.changePct.n > 1
                     /\ s.changePct.n < 9
                     /\ s.mainNetInflow.kind = "num"
                     /\ s.mainNetInflow.n > 0}

\* C17: the published buy candidate is never a held symbol, whether it
\* came from the eligibility filter or from the fallback.
C17_CandidateNeverHeld ==
    buyCandidate # NoCandidate =>
        \A i \in 1..Len(HOLDINGS) : buyCandidate.code # HOLDINGS[i]

\* a held stock leads the list and is the only one that passes the filter,
\* and a stock that is not held was published
C17_Witness ==
    /\ Screened
    /\ buyCandidate # NoCandidate
    /\ Len(sectorData.stocks) = 2
    /\ sectorData.stocks[1].code = HOLDINGS[1]
    /\ Eligible(sectorData.stocks[1])
    /\ ~Eligible(sectorData.stocks[2])
    /\ buyCandidate.code = sectorData.stocks[2].code

\* C18 (as claimed): when no stock that is not held passes the filter the
\* screener falls back to the unfiltered pool, so a candidate is published
\* whenever the list holds a stock that is not held.
C18_FallbackAlwaysPublishes ==
    (Screened /\ NonHeld # {}) => buyCandidate # NoCandidate

\* C19: whenever a stock that is not held is eligible (change strictly
\* between 1 and 9, inflow above 0), the published candidate is an eligible
\* stock that is not held and no eligible stock has a larger net inflow.
C19_FlowLedPick ==
    (Screened /\ EligibleNonHeld # {}) =>
        \E s \in EligibleNonHeld :
            /\ buyCandidate # NoCandidate
            /\ buyCandidate.code = s.code
            /\ buyCandidate.change = s.changePct.n
            /\ \A t \in EligibleNonHeld : t.mainNetInflow.n <= s.mainNetInflow.n

\* the stock listed first is at the bound 1 with the larger inflow, and the
\* eligible stock listed second was published
C19_Witness ==
    /\ Screened
    /\ Len(sectorData.stocks) = 2
    /\ sectorData.stocks[1].code \notin holdingCodes
    /\ sectorData.stocks[1].changePct = Num(1)
    /\ sectorData.stocks[1].mainNetInflow = Num(1500000000)
    /\ sectorData.stocks[2] \in EligibleNonHeld
    /\ sectorData.stocks[2].mainNetInflow = Num(500000000)
    /\ sectorData.stocks[2].code # sectorData.stocks[1].code
    /\ buyCandidate.code = sectorData.stocks[2].code

(***************************************************************************)
(* Properties of the risk score, checked under SpecRisk.                   *)
(***************************************************************************)
\* the gauge shows the score computed for the portfolio
RiskShown == riskScore # 0

\* one position of cost 100 and 10 shares, market value 1300 (price 130),
\* P&L +300, total assets 2000
C20_Scenario ==
    /\ portfolio.present
    /\ portfolio.positions = << [cost |-> 100, shares |-> 10] >>
    /\ portfolio.totalAssets = 2000
    /\ portfolio.totalMarketValue = 1300
    /\ portfolio.totalPnl = 300

PositionValues ==
    {portfolio.positions[i].cost * portfolio.positions[i].shares :
        i \in 1..Len(portfolio.positions)}

LargestAtCost == IF PositionValues = {} THEN 0
                 ELSE CHOOSE v \in PositionValues : \A w \in PositionValues : w <= v

RECURSIVE CostOfFirst(_)
CostOfFirst(n) ==
    IF n = 0 THEN 0
    ELSE portfolio.positions[n].cost * portfolio.positions[n].shares + CostOfFirst(n - 1)

SumAtCost == CostOfFirst(Len(portfolio.positions))

Scored == portfolio.present /\ portfolio.totalAssets > 0 /\ RiskShown

LargestOf(ps) ==
    LET vals == {ps[i].cost * ps[i].shares : i \in 1..Len(ps)}
    IN  IF vals = {} THEN 0 ELSE CHOOSE v \in vals : \A w \in vals : w <= v

RECURSIVE SumOfFirst(_, _)
SumOfFirst(ps, n) ==
    IF n = 0 THEN 0 ELSE ps[n].cost * ps[n].shares + SumOfFirst(ps, n - 1)

\* q has the exposure ratio and the P&L percent of the portfolio scored,
\* and a concentration that is at least as high (cmp is ">=") or strictly
\* higher (cmp is ">")
SameButConcentration(q, cmp) ==
    LET p   == portfolio
        tcp == SumAtCost
        tcq == SumOfFirst(q.positions, Len(q.positions))
        np  == IF tcp > 0 THEN p.totalPnl ELSE 0
        dp  == IF tcp > 0 THEN tcp ELSE 1
        nq  == IF tcq > 0 THEN q.totalPnl ELSE 0
        dq  == IF tcq > 0 THEN tcq ELSE 1
        cq  == LargestOf(q.positions) * p.totalAssets
        cp  == LargestAtCost * q.totalAssets
    IN  /\ q.present
        /\ q.totalAssets > 0
        /\ q.totalMarketValue * p.totalAssets = p.totalMarketValue * q.totalAssets
        /\ nq * dp = np * dq
        /\ IF cmp = ">" THEN cq > cp ELSE cq >= cp

\* C22: of two portfolios with the same exposure ratio and the same P&L
\* percent, the one with the higher concentration never has the lower risk
\* score.
C22_ConcentrationMonotone ==
    Scored =>
        \A q \in Portfolios :
            SameButConcentration(q, ">=") => targetScore(q) >= riskScore

\* two equal positions against the same cost held in one position, the
\* totals being the same: the concentrated portfolio scores strictly higher
C22_Witness ==
    /\ Scored
    /\ Len(portfolio.positions) = 2
    /\ \E q \in Portfolios :
           /\ SameButConcentration(q, ">")
           /\ Len(q.positions) = 1
           /\ q.totalAssets = portfolio.totalAssets
           /\ q.totalMarketValue = portfolio.totalMarketValue
           /\ q.totalPnl = portfolio.totalPnl
           /\ targetScore(q) > riskScore

\* C23: the risk score computed for any portfolio, and so every value the
\* gauge shows, from its initial 0 on, lies in [0,100].
C23_ScoreInRange ==
    /\ riskScore \in 0..100
    /\ targetScore(portfolio) \in 0..100

\* every tier is triggered: 20 + 20 + 25 + 20
C23_Witness ==
    /\ Scored
    /\ 100 * portfolio.totalMarketValue > 85 * portfolio.totalAssets
    /\ 100 * LargestAtCost > 50 * portfolio.totalAssets
    /\ 100 * portfolio.totalPnl < -5 * SumAtCost
    /\ riskScore = 85

\* C29: without portfolio data, or with totalAssets <= 0, the target score
\* is the fallback 35 and the metric list rendered is empty; once the timer
\* has fired the gauge shows 35 and the level medium.
C29_FallbackIsThirtyFive ==
    (~portfolio.present \/ portfolio.totalAssets <= 0) =>
        /\ targetScore(portfolio) = 35
        /\ riskMetrics(portfolio) = << >>
        /\ RiskShown => (riskScore = 35 /\ riskLevel(riskScore) = "medium")

\* a portfolio that reports total assets 0 and has positions
C29_Witness ==
    /\ portfolio.present
    /\ portfolio.totalAssets = 0
    /\ Len(portfolio.positions) > 0
    /\ riskScore = 35

\* no portfolio at all
C29_WitnessNull == portfolio = NoPortfolio /\ riskScore = 35

(***************************************************************************)
(* Properties of the candidate's score, checked under SpecScreen.          *)
(***************************************************************************)
\* the listed stocks the published candidate can have been built from
PickedFrom ==
    {s \in NonHeld : /\ s.code = buyCandidate.code
                     /\ s.changePct = Num(buyCandidate.change)
                     /\ s.mainNetInflow.kind = "num"}

\* C24: the score of the published candidate is min(85, 60 + 2 * inflow /
\* 1e8) for the net inflow of the stock picked (so 85 from an inflow of
\* 12.5e8 on, and below that (score - 60) * 5e7 is the inflow); it never
\* exceeds 85, and no stock with a larger inflow would score lower.
C24_ScoreIsCappedLinear ==
    (Screened /\ buyCandidate # NoCandidate) =>
        /\ buyCandidate.score <= 85
        /\ \E s \in PickedFrom :
               /\ s.mainNetInflow.n >= 1250000000 => buyCandidate.score = 85
               /\ s.mainNetInflow.n < 1250000000 =>
                      (buyCandidate.score - 60) * 50000000 = s.mainNetInflow.n
               /\ \A t \in SectorStocks :
                      (t.mainNetInflow.kind = "num"
                       /\ t.mainNetInflow.n >= s.mainNetInflow.n)
                          => Score(t) >= buyCandidate.score

\* an inflow of 15e8, for which 60 + 30 is capped at 85
C24_Witness ==
    /\ Screened
    /\ buyCandidate # NoCandidate
    /\ buyCandidate.score = 85
    /\ \A s \in PickedFrom : s.mainNetInflow = Num(1500000000)
    /\ PickedFrom # {}

\* the fallback pick of a stock with an outflow of 5e8 scores 50
C24_WitnessOutflow ==
    /\ Screened
    /\ buyCandidate # NoCandidate
    /\ buyCandidate.score = 50

(***************************************************************************)
(* Properties of the loading flag and of the holdings a cycle works on,    *)
(* checked under Spec.                                                     *)
(***************************************************************************)
\* C25 (as claimed): whenever a holdings cycle is in flight, loading is true,
\* so the refresh button is disabled, a timer tick that starts a second cycle
\* before the first has returned included.
C25_LoadingWhileInFlight ==
    inflight # {} => loading

\* C26 (as claimed): every holdings cycle that starts sends to the backend,
\* and computes P&L from, the holdings with the cost and shares that the
\* portfolio refresh delivered last, also when that refresh changed cost or
\* shares and left the codes as they were.
C26_CycleUsesLatestHoldings ==
    [][ \A c \in inflight' \ inflight : c.holdings = holdings' ]_vars

(***************************************************************************)
(* Properties of Dashboard.runAnalysis, checked under SpecRun.             *)
(***************************************************************************)
\* C27: at most one run of runAnalysis is in progress at any time, and a
\* click on the re-analyse button while a run is in progress starts no
\* second run and leaves the logs and the signals as they are.
C27_SingleRun ==
    /\ [](Cardinality(runs) <= 1)
    /\ [][ (runs # {} /\ triggers' # triggers) =>
               (runs' = runs /\ logs' = logs /\ signals' = signals) ]_vars

\* the button was clicked after the run in progress had started
C27_Witness ==
    \E r \in runs : r.id < triggers /\ Len(logs) > 0

\* the quote a finished run had for a holding
RunQuote(h) == FindQuote(signalsFrom.quoteData.data, h.code)

\* the holdings of the finished run that had a quote and an accumulated
\* P&L below -8 percent of their cost
LosingHoldings ==
    IF signalsFrom = NoCycle \/ ~signalsFrom.quoteData.success THEN {}
    ELSE {h \in {signalsFrom.holdings[i] : i \in 1..Len(signalsFrom.holdings)} :
            /\ HasQuote(signalsFrom.quoteData.data, h.code)
            /\ h.cost > 0
            /\ ((RunQuote(h).current - h.cost) * 100) \div h.cost < -8}

\* C28: in the signals a run publishes, every holding that had a quote and
\* an accumulated P&L below -8 percent has a sell signal, whatever the
\* quote's day change and its position between the day's low and high.
C28_LossTriggersSell ==
    \A h \in LosingHoldings :
        \E k \in 1..Len(signals) :
            /\ signals[k].code = h.code
            /\ signals[k].action = "sell"
            /\ \A j \in 1..Len(signals) : signals[j].code = h.code => j = k

\* a holding 35 percent under its cost on a day it is up and near its high
C28_Witness ==
    \E h \in LosingHoldings :
        /\ RunQuote(h).percent > 0
        /\ RunQuote(h).high > RunQuote(h).low
        /\ (RunQuote(h).current - RunQuote(h).low) * 100
               > 70 * (RunQuote(h).high - RunQuote(h).low)
        /\ \E k \in 1..Len(signals) :
               signals[k] = [code |-> h.code, action |-> "sell", confidence |-> 75]

(***************************************************************************)
(* Properties of the proxy routes, checked under SpecProxy.                *)
(***************************************************************************)
\* the route's own body
Failure(response) == response.body.success = FALSE /\ "error" \in DOMAIN response.body

\* what the claim lets a request that ended this way be answered with
ProxyAnswered(route) ==
    LET how == proxyCall[route].ended
        response == proxyResponse[route]
    IN  CASE how.kind = "reply" /\ how.res.status \in 200..299 /\ how.res.body # NotJson ->
                 response.body = how.res.body /\ response.status = 200
          [] how.kind = "reply" /\ how.res.status \notin 200..299 ->
                 Failure(response) /\ response.status = how.res.status
          [] how.kind = "abort" ->
                 /\ Failure(response) /\ response.status = 503
                 /\ how.after = (IF route = "agents" THEN 300 ELSE 180) * 1000
          [] how.kind = "error" /\ "ECONNREFUSED" \in {how.e.code, how.e.cause} ->
                 Failure(response) /\ response.status = 503
          [] how.kind = "error" /\ how.e.name = "TimeoutError" ->
                 Failure(response) /\ response.status = 503
          [] OTHER ->
                 Failure(response) /\ response.status = 500

C30_WitnessRefused ==
    /\ "ended" \in DOMAIN proxyCall["market-picks"]
    /\ proxyCall["market-picks"].ended.kind = "error"
    /\ proxyCall["market-picks"].ended.e.cause = "ECONNREFUSED"
    /\ proxyResponse["market-picks"].status = 503

====
